---------------------------- MODULE Spec2Model ----------------------------
(***************************************************************************)
(* InaSAFE hazard/exposure overlay engine.                                 *)
(*                                                                         *)
(*  - CategorisedVectorHazardPopulationImpactFunction                      *)
(*      (safe/impact_functions/generic/                                    *)
(*       categorised_vector_hazard_population.py): the pipeline            *)
(*      add_density -> deintersect_exposure -> assign_hazard_level ->      *)
(*      multiply_density_by_area -> generate_statistics                    *)
(*  - FloodRasterBuildingFunction.run                                      *)
(*      (safe/impact_functions/inundation/                                 *)
(*       flood_raster_osm_building_impact/impact_function.py)              *)
(*                                                                         *)
(* Numbers are Python numbers.  A Python int or float is the record        *)
(*   [k |-> "int" | "float", s |-> 0 | 1, m |-> bits, e |-> exponent]      *)
(* whose value is (-1)^s * m * 2^e, with m a sequence of bits, most        *)
(* significant first, that starts and ends with a 1 (the empty sequence    *)
(* is zero).  Float operations round to 53 significant bits, to nearest,   *)
(* ties to even, as IEEE-754 binary64 does; the values of the model stay   *)
(* far from the overflow and subnormal ranges.                             *)
(***************************************************************************)
EXTENDS Integers, Sequences, FiniteSets, TLC

(***************************************************************************)
(* Python arithmetic                                                       *)
(***************************************************************************)

\* Significant bits of a Python float (IEEE-754 binary64).
Prec == 53

\* Bit sequences are added, multiplied and divided LimbBits bits at a time.
LimbBits == 10

LimbBase == 2 ^ LimbBits

Zeros(n) == [i \in 1..n |-> 0]

\* The bits of a natural number below 2^30, most significant first.
BitsOf(n) == [i \in 1..30 |-> (n \div 2 ^ (30 - i)) % 2]

RECURSIVE ValOf(_)
ValOf(b) ==
    IF b = << >> THEN 0 ELSE 2 * ValOf(SubSeq(b, 1, Len(b) - 1)) + b[Len(b)]

StripLead(b) ==
    IF \A i \in 1..Len(b) : b[i] = 0 THEN << >>
    ELSE LET f == CHOOSE i \in 1..Len(b) :
                      b[i] = 1 /\ \A j \in 1..(i - 1) : b[j] = 0
         IN  SubSeq(b, f, Len(b))

\* The number of zero bits that end a bit sequence with a 1 in it.
TrailZeros(b) ==
    LET l == CHOOSE i \in 1..Len(b) :
                 b[i] = 1 /\ \A j \in (i + 1)..Len(b) : b[j] = 0
    IN  Len(b) - l

\* b + 1
Incr(b) ==
    IF \A i \in 1..Len(b) : b[i] = 1 THEN <<1>> \o Zeros(Len(b))
    ELSE LET z == CHOOSE i \in 1..Len(b) :
                      b[i] = 0 /\ \A j \in (i + 1)..Len(b) : b[j] = 1
         IN  [i \in 1..Len(b) |-> IF i < z THEN b[i] ELSE IF i = z THEN 1 ELSE 0]

\* A bit sequence as a sequence of limbs (digits in base LimbBase), and back.
ToLimbs(b) ==
    LET n  == (Len(b) + LimbBits - 1) \div LimbBits
        pb == Zeros(n * LimbBits - Len(b)) \o b
    IN  [j \in 1..n |->
            ValOf(SubSeq(pb, (j - 1) * LimbBits + 1, j * LimbBits))]

FromLimbs(l) ==
    [i \in 1..(LimbBits * Len(l)) |->
        (l[(i - 1) \div LimbBits + 1]
            \div 2 ^ (LimbBits - 1 - ((i - 1) % LimbBits))) % 2]

\* The number of kind k, sign s and magnitude bits * 2^e, in canonical form.
Canon(k, s, bits, e) ==
    LET b == StripLead(bits) IN
    IF b = << >> THEN [k |-> k, s |-> s, m |-> << >>, e |-> 0]
    ELSE LET tz == TrailZeros(b) IN
         [k |-> k, s |-> s, m |-> SubSeq(b, 1, Len(b) - tz), e |-> e + tz]

\* Round bits * 2^e (plus a non-zero remainder below the last bit when
\* sticky) to Prec significant bits: to nearest, ties to even.
RoundNearestEven(k, s, bits, sticky, e) ==
    LET b == StripLead(bits) IN
    IF Len(b) <= Prec THEN Canon(k, s, b, e)
    ELSE LET keep  == SubSeq(b, 1, Prec)
             guard == b[Prec + 1]
             rest  == sticky \/ \E i \in (Prec + 2)..Len(b) : b[i] = 1
             up    == guard = 1 /\ (rest \/ keep[Prec] = 1)
         IN  Canon(k, s, IF up THEN Incr(keep) ELSE keep, e + Len(b) - Prec)

\* int(n) for a TLA+ integer n.
PyInt(n) ==
    Canon("int", IF n < 0 THEN 1 ELSE 0, BitsOf(IF n < 0 THEN -n ELSE n), 0)

\* float(x)
PyFloat(x) == [x EXCEPT !.k = "float"]

IsZero(x) == x.m = << >>

ResultKind(x, y) == IF x.k = "int" /\ y.k = "int" THEN "int" ELSE "float"

RECURSIVE DivLimbs(_, _, _, _)
DivLimbs(l, d, r, q) ==
    IF l = << >> THEN [q |-> q, r |-> r]
    ELSE LET r2 == r * LimbBase + Head(l) IN
         DivLimbs(Tail(l), d, r2 % d, Append(q, r2 \div d))

\* x / y with y a float: the correctly rounded quotient.  The divisor is
\* not zero and its odd part is small (the areas of the model are small
\* integers).
PyTrueDiv(x, y) ==
    LET d  == ValOf(y.m)
        z  == Prec + 2 + Len(y.m)
        qr == DivLimbs(ToLimbs(x.m \o Zeros(z)), d, 0, << >>)
    IN  RoundNearestEven("float", (x.s + y.s) % 2, FromLimbs(qr.q),
                         qr.r # 0, x.e - y.e - z)

RECURSIVE MulLimbs(_, _, _)
MulLimbs(l, d, c) ==
    IF l = << >> THEN <<c \div LimbBase, c % LimbBase>>
    ELSE LET t == l[Len(l)] * d + c IN
         Append(MulLimbs(SubSeq(l, 1, Len(l) - 1), d, t \div LimbBase),
                t % LimbBase)

\* x * y, correctly rounded; the odd part of y is small.
PyMul(x, y) ==
    RoundNearestEven(ResultKind(x, y), (x.s + y.s) % 2,
                     FromLimbs(MulLimbs(ToLimbs(x.m), ValOf(y.m), 0)),
                     FALSE, x.e + y.e)

\* The magnitudes of x and y written with a common exponent, as limb
\* sequences of the same length.
Aligned(x, y) ==
    LET e  == IF IsZero(x) THEN y.e ELSE IF IsZero(y) THEN x.e
              ELSE IF x.e <= y.e THEN x.e ELSE y.e
        bx == x.m \o Zeros(IF IsZero(x) THEN 0 ELSE x.e - e)
        by == y.m \o Zeros(IF IsZero(y) THEN 0 ELSE y.e - e)
        n  == IF Len(bx) >= Len(by) THEN Len(bx) ELSE Len(by)
    IN  [a |-> ToLimbs(Zeros(n - Len(bx)) \o bx),
         b |-> ToLimbs(Zeros(n - Len(by)) \o by), e |-> e]

RECURSIVE AddLimbs(_, _, _)
AddLimbs(a, b, c) ==
    IF a = << >> THEN <<c>>
    ELSE LET t == a[Len(a)] + b[Len(b)] + c IN
         Append(AddLimbs(SubSeq(a, 1, Len(a) - 1), SubSeq(b, 1, Len(b) - 1),
                         t \div LimbBase),
                t % LimbBase)

\* a - b for a >= b, limb sequences of the same length.
RECURSIVE SubLimbs(_, _, _)
SubLimbs(a, b, c) ==
    IF a = << >> THEN << >>
    ELSE LET t == a[Len(a)] - b[Len(b)] - c IN
         Append(SubLimbs(SubSeq(a, 1, Len(a) - 1), SubSeq(b, 1, Len(b) - 1),
                         IF t < 0 THEN 1 ELSE 0),
                IF t < 0 THEN t + LimbBase ELSE t)

\* -1, 0, 1 as a < b, a = b, a > b; limb sequences of the same length.
CmpLimbs(a, b) ==
    IF a = b THEN 0
    ELSE LET i == CHOOSE i \in 1..Len(a) :
                      a[i] # b[i] /\ \A j \in 1..(i - 1) : a[j] = b[j]
         IN  IF a[i] < b[i] THEN -1 ELSE 1

\* x + y, correctly rounded.
PyAdd(x, y) ==
    LET al == Aligned(x, y)
        k  == ResultKind(x, y)
        c  == CmpLimbs(al.a, al.b)
    IN  IF x.s = y.s
        THEN RoundNearestEven(k, x.s, FromLimbs(AddLimbs(al.a, al.b, 0)),
                              FALSE, al.e)
        ELSE IF c = 0 THEN Canon(k, 0, << >>, 0)
        ELSE IF c > 0
        THEN RoundNearestEven(k, x.s, FromLimbs(SubLimbs(al.a, al.b, 0)),
                              FALSE, al.e)
        ELSE RoundNearestEven(k, y.s, FromLimbs(SubLimbs(al.b, al.a, 0)),
                              FALSE, al.e)

\* x == y (an int equals the float of the same value; 0.0 == -0.0).
PyEq(x, y) ==
    /\ x.m = y.m
    /\ IsZero(x) \/ (x.s = y.s /\ x.e = y.e)

\* x > y
PyGt(x, y) ==
    LET c == CmpLimbs(Aligned(x, y).a, Aligned(x, y).b) IN
    IF IsZero(x) /\ IsZero(y) THEN FALSE
    ELSE IF x.s = 0 /\ y.s = 0 THEN c > 0
    ELSE IF x.s = 1 /\ y.s = 1 THEN c < 0
    ELSE x.s = 0

(***************************************************************************)
(* Layers.  A layer is [names, data, geometry]: the attribute names, the   *)
(* ordered attribute mappings (get_data() hands out the mappings           *)
(* themselves, not copies) and the parallel geometries.  A geometry is a   *)
(* segment <<lo, hi>> of a line with integer end points: a cross-section   *)
(* of a polygon.                                                           *)
(***************************************************************************)

\* NO_DATA of CategorisedVectorHazardPopulationImpactFunction.
NO_DATA == -9999

\* The class-level parameters, after the two insert(0, ...) calls.
DefaultParameters ==
    [exposure_id_field |-> "id",
     exposure_field    |-> "pop",
     hazard_field      |-> "haz_level",
     categories        |-> <<NO_DATA, 0, 1, 2, 3>>,
     categories_labels |-> <<"No Data", "No hazard", "Low", "Medium", "High">>]

\* The names hasattr() finds on a Python 2 dict: its methods, never its keys.
DictAttributes ==
    {"clear", "copy", "fromkeys", "get", "has_key", "items", "iteritems",
     "iterkeys", "itervalues", "keys", "pop", "popitem", "setdefault",
     "update", "values", "viewitems", "viewkeys", "viewvalues"}

\* hasattr(d, name) for a dict d
HasAttr(d, name) == name \in DictAttributes

\* d[key] = value
SetItem(d, key, value) ==
    [x \in DOMAIN d \cup {key} |-> IF x = key THEN value ELSE d[x]]

NoLayer == [names |-> {}, data |-> << >>, geometry |-> << >>]

\* Twice the centre of a segment (convert_polygons_to_centroids).
Centroid2(seg) == seg[1] + seg[2]

\* is_inside_polygon(point, polygon): the boundary counts as inside.
IsInsidePolygon(c2, poly) == 2 * poly[1] <= c2 /\ c2 <= 2 * poly[2]

VARIABLES
    parameters,        \* self.parameters
    my_hazard,         \* the hazard layer handed to run
    my_exposure,       \* the exposure layer handed to run
    my_impact,         \* the working copy (NoLayer before it is made)
    max_impact_value,  \* returned by multiply_density_by_area
    my_impact_stats,   \* [stats, heap] returned by generate_statistics
    my_impact_table,   \* the table of generate_report (NoTable before it)
    pc,                \* the call of run that comes next
    error,             \* the exception that ended run, "" while none did
    flood_parameters,  \* FloodRasterBuildingFunction: self.parameters
    interpolated_layer,\* its features: the depths and the target field
    flood_impact,      \* what its run returns (NoImpact before it returns)
    flood_pc,          \* "run" before its run, "done" after
    myEventId,         \* make_map: sys.argv[1], "None" without one
    myListing,         \* make_map: the listing of the FTP server
    myForceFlag,       \* make_map: INASAFE_FORCE is set to Y
    event_index,       \* make_map: the place of myEvent in myListing
    shake_events,      \* make_map: the ShakeEvent constructions so far
    render_calls,      \* make_map: the renderMap calls so far
    LOGGER,            \* make_map: the exceptions logged so far
    map_pc             \* make_map: the branch of the script that runs

category_vars == <<parameters, my_hazard, my_exposure, my_impact,
                   max_impact_value, my_impact_stats, my_impact_table,
                   pc, error>>

flood_vars == <<flood_parameters, interpolated_layer, flood_impact, flood_pc>>

map_vars == <<myEventId, myListing, myForceFlag, event_index, shake_events,
              render_calls, LOGGER, map_pc>>

vars == <<category_vars, flood_vars, map_vars>>

(***************************************************************************)
(* add_density                                                             *)
(***************************************************************************)

\* population / float(att['area']) raises ZeroDivisionError
DivisionFails(att) == IsZero(att["area"])

Density(att, population_field) ==
    PyTrueDiv(att[population_field], PyFloat(att["area"]))

\* The loop over exposure_layer.get_data(): every mapping before the first
\* one whose division fails gets its density, in place.
AddDensityData(data, population_field) ==
    LET bad == {i \in 1..Len(data) : DivisionFails(data[i])}
        ok(i) == \A j \in bad : i < j
    IN  [raised |-> bad # {},
         data   |-> [i \in 1..Len(data) |->
                        IF ok(i)
                        THEN SetItem(data[i], "density",
                                     Density(data[i], population_field))
                        ELSE data[i]]]

add_density ==
    /\ pc = "add_density"
    /\ LET population_field == parameters.exposure_field
           r == AddDensityData(my_exposure.data, population_field)
       IN  IF population_field \notin my_exposure.names
           THEN /\ pc' = "error"
                /\ error' = "RuntimeError: No population field found"
                /\ UNCHANGED my_exposure
           ELSE IF r.raised
           THEN /\ pc' = "error"
                /\ error' = "ZeroDivisionError"
                /\ my_exposure' = [my_exposure EXCEPT !.data = r.data]
           ELSE /\ pc' = "deintersect_exposure"
                /\ my_exposure' = [my_exposure EXCEPT !.data = r.data]
                /\ UNCHANGED error
    /\ UNCHANGED <<parameters, my_hazard, my_impact, max_impact_value,
                   my_impact_stats>>
    /\ UNCHANGED <<my_impact_table, flood_vars, map_vars>>

(***************************************************************************)
(* deintersect_exposure                                                    *)
(***************************************************************************)

\* exposure_layer.copy(): a layer of its own, equal to the exposure layer.
LayerCopy(layer) == layer

deintersect_exposure ==
    /\ pc = "deintersect_exposure"
    /\ my_impact' = LayerCopy(my_exposure)
    /\ pc' = "assign_hazard_level"
    /\ UNCHANGED <<parameters, my_hazard, my_exposure, max_impact_value,
                   my_impact_stats, error>>
    /\ UNCHANGED <<my_impact_table, flood_vars, map_vars>>

(***************************************************************************)
(* assign_hazard_level                                                     *)
(***************************************************************************)

\* The guard of the raise: the field is "already defined" in the mapping.
AlreadyDefined(att, impact_field) ==
    HasAttr(att, impact_field) /\ att[impact_field] # NO_DATA

\* The two nested loops, from hazard polygon h and impact feature i on.
RECURSIVE AssignLoop(_, _, _, _, _, _)
AssignLoop(data, centroids, hazard, field, h, i) ==
    IF h > Len(hazard.geometry) THEN [raised |-> FALSE, data |-> data]
    ELSE IF i > Len(centroids)
    THEN AssignLoop(data, centroids, hazard, field, h + 1, 1)
    ELSE IF IsInsidePolygon(centroids[i], hazard.geometry[h])
    THEN IF AlreadyDefined(data[i], field)
         THEN [raised |-> TRUE, data |-> data]
         ELSE AssignLoop([data EXCEPT ![i] =
                             SetItem(@, field, hazard.data[h][field])],
                         centroids, hazard, field, h, i + 1)
    ELSE AssignLoop(data, centroids, hazard, field, h, i + 1)

\* assign_hazard_level with the loop over the hazard polygons started one
\* polygon late.
AssignHazardLevelData_SkipFirst(impact_layer, hazard_layer, field) ==
    AssignLoop([i \in 1..Len(impact_layer.data) |->
                   SetItem(impact_layer.data[i], field, NO_DATA)],
               [i \in 1..Len(impact_layer.geometry) |->
                   Centroid2(impact_layer.geometry[i])],
               hazard_layer, field, 2, 1)

AssignHazardLevelData(impact_layer, hazard_layer, field) ==
    LET centroids == [i \in 1..Len(impact_layer.geometry) |->
                         Centroid2(impact_layer.geometry[i])]
        cleared   == [i \in 1..Len(impact_layer.data) |->
                         SetItem(impact_layer.data[i], field, NO_DATA)]
    IN  AssignLoop(cleared, centroids, hazard_layer, field, 1, 1)

assign_hazard_level ==
    /\ pc = "assign_hazard_level"
    /\ LET r == AssignHazardLevelData(my_impact, my_hazard,
                                      parameters.hazard_field)
       IN  /\ my_impact' = [my_impact EXCEPT !.data = r.data]
           /\ IF r.raised
              THEN /\ pc' = "error"
                   /\ error' = "RuntimeError: field already defined in impact layer"
              ELSE /\ pc' = "multiply_density_by_area"
                   /\ UNCHANGED error
    /\ UNCHANGED <<parameters, my_hazard, my_exposure, max_impact_value,
                   my_impact_stats>>
    /\ UNCHANGED <<my_impact_table, flood_vars, map_vars>>

(***************************************************************************)
(* multiply_density_by_area                                                *)
(***************************************************************************)

\* new_impact without the multiplication by the area.
NewImpact_NoArea(att) == att["density"]

NewImpact(att) == PyMul(att["density"], att["area"])

MultiplyData(data, value_field) ==
    [i \in 1..Len(data) |-> SetItem(data[i], value_field, NewImpact(data[i]))]

\* max_impact_value after the first n features.
RECURSIVE MaxImpact(_, _)
MaxImpact(data, n) ==
    IF n = 0 THEN PyInt(0)
    ELSE LET before == MaxImpact(data, n - 1)
             new_impact == NewImpact(data[n])
         IN  IF PyGt(new_impact, before) THEN new_impact ELSE before

multiply_density_by_area ==
    /\ pc = "multiply_density_by_area"
    /\ my_impact' = [my_impact EXCEPT
                        !.data = MultiplyData(@, parameters.exposure_field)]
    /\ max_impact_value' = MaxImpact(my_impact.data, Len(my_impact.geometry))
    /\ pc' = "generate_statistics"
    /\ UNCHANGED <<parameters, my_hazard, my_exposure, my_impact_stats, error>>
    /\ UNCHANGED <<my_impact_table, flood_vars, map_vars>>

(***************************************************************************)
(* The order of a Python 2 dict.  iteritems() and values() walk the hash   *)
(* table of the dict from slot 0 up, so the order is that of the slots; a  *)
(* key is put in the first free slot of its probe sequence.  A table is a  *)
(* function from its slots 0..size-1 to << >> (free) or <<key>>; keys are  *)
(* ints, and tables have at most 32 slots (21 keys).                       *)
(***************************************************************************)

\* PyDict_MINSIZE
MINSIZE == 8

EmptySlots(size) == [i \in 0..(size - 1) |-> << >>]

Size(slots) == Cardinality(DOMAIN slots)

Used(slots) == Cardinality({i \in DOMAIN slots : slots[i] # << >>})

\* hash(key) of an int
IntHash(key) == IF key = -1 THEN -2 ELSE key

\* (size_t)hash, 64 bits, in 13 digits of PERTURB_SHIFT = 5 bits, the
\* lowest first.
PerturbDigits(h) ==
    LET digit(n, k) == IF k <= 7 THEN (n \div (32 ^ (k - 1))) % 32 ELSE 0
    IN  [k \in 1..13 |->
            IF h >= 0 THEN digit(h, k)
            ELSE IF k = 13 THEN 15
            ELSE 31 - digit(-h - 1, k)]

\* lookdict: the slot of key, from slot i on; perturb holds the digits of
\* the hash that are still to be shifted in.
RECURSIVE lookdict(_, _, _, _)
lookdict(slots, key, i, perturb) ==
    IF slots[i] = << >> \/ slots[i] = <<key>> THEN i
    ELSE lookdict(slots, key,
                  (5 * i + (IF perturb = << >> THEN 0 ELSE Head(perturb)) + 1)
                      % Size(slots),
                  IF perturb = << >> THEN << >> ELSE Tail(perturb))

insertdict(slots, key) ==
    [slots EXCEPT ![lookdict(slots, key, IntHash(key) % Size(slots),
                             PerturbDigits(IntHash(key)))] = <<key>>]

\* The keys in the order of iteration.
SlotOrder(slots) ==
    LET full   == {i \in DOMAIN slots : slots[i] # << >>}
        nth(n) == CHOOSE i \in full : Cardinality({j \in full : j < i}) = n - 1
    IN  [n \in 1..Cardinality(full) |-> slots[nth(n)][1]]

RECURSIVE InsertAll(_, _, _)
InsertAll(slots, keys, n) ==
    IF n > Len(keys) THEN slots
    ELSE InsertAll(insertdict(slots, keys[n]), keys, n + 1)

\* dictresize(mp, minused): a table of the smallest size above minused, the
\* keys put in again in the order of their slots.
dictresize(slots, minused) ==
    LET newsize == CHOOSE z \in {8, 16, 32} :
                       /\ z > minused
                       /\ \A y \in {8, 16, 32} : y > minused => z <= y
    IN  InsertAll(EmptySlots(newsize), SlotOrder(slots), 1)

\* d[key] = value: the table grows when a new key fills two thirds of it.
PyDict_SetItem(slots, key) ==
    LET after == insertdict(slots, key)
    IN  IF Used(after) > Used(slots) /\ Used(after) * 3 >= Size(after) * 2
        THEN dictresize(after, 4 * Used(after))
        ELSE after

\* d.copy(): a new table that gets the keys of d in the order of its slots.
PyDict_Copy(slots) ==
    LET start == EmptySlots(MINSIZE)
        sized == IF Used(slots) * 3 >= MINSIZE * 2
                 THEN dictresize(start, 2 * Used(slots))
                 ELSE start
    IN  InsertAll(sized, SlotOrder(slots), 1)

\* A dict filled by d[key] = ... for the keys in turn.
RECURSIVE SetItems(_, _, _)
SetItems(slots, keys, n) ==
    IF n > Len(keys) THEN slots
    ELSE SetItems(PyDict_SetItem(slots, keys[n]), keys, n + 1)

(***************************************************************************)
(* generate_statistics.  Dicts that can be shared live in a heap: stats    *)
(* maps a group key to the place of its row in the heap, and heap[1] is    *)
(* initial_stats.  slots holds the hash tables: that of stats, and for     *)
(* every dict of the heap its own.                                         *)
(***************************************************************************)

NoStats == [stats |-> << >>, heap |-> << >>,
            slots |-> [stats |-> EmptySlots(MINSIZE), heap |-> << >>]]

\* initial_stats over the categories as configured before NO_DATA is
\* inserted in front of them.
InitialStats_NoSentinel(categories) ==
    [c \in {categories[i] : i \in 2..Len(categories)} |-> PyInt(0)]

InitialStats(categories) ==
    [c \in {categories[i] : i \in 1..Len(categories)} |-> PyInt(0)]

\* stats[current_id] = initial_stats, without the copy.
DictCopy_Alias(heap, ref) == [heap |-> heap, ref |-> ref]

\* initial_stats.copy(): a new dict with the same items.
DictCopy(heap, ref) == [heap |-> Append(heap, heap[ref]), ref |-> Len(heap) + 1]

\* One turn of the loop over impact_attr.
StatsStep(st, attr, p) ==
    LET current_id   == attr[p.exposure_id_field]
        impact_level == attr[p.hazard_field]
        count        == attr[p.exposure_field]
        key_error    == \/ current_id \notin DOMAIN st.stats
                        \/ impact_level \notin DOMAIN st.heap[st.stats[current_id]]
    IN  IF ~key_error
        THEN [st EXCEPT !.heap[st.stats[current_id]][impact_level] =
                            PyAdd(@, count)]
        ELSE LET c == DictCopy(st.heap, 1)
                 tables == IF Len(c.heap) > Len(st.heap)
                           THEN Append(st.slots.heap,
                                       PyDict_Copy(st.slots.heap[1]))
                           ELSE st.slots.heap
             IN
             [stats |-> SetItem(st.stats, current_id, c.ref),
              heap  |-> [c.heap EXCEPT ![c.ref] =
                            SetItem(@, impact_level, count)],
              slots |-> [stats |-> PyDict_SetItem(st.slots.stats, current_id),
                         heap  |-> [tables EXCEPT ![c.ref] =
                                       PyDict_SetItem(@, impact_level)]]]

RECURSIVE StatsLoop(_, _, _, _)
StatsLoop(st, data, n, p) ==
    IF n > Len(data) THEN st
    ELSE StatsLoop(StatsStep(st, data[n], p), data, n + 1, p)

GenerateStatistics(data, p) ==
    StatsLoop([stats |-> << >>, heap |-> <<InitialStats(p.categories)>>,
               slots |-> [stats |-> EmptySlots(MINSIZE),
                          heap  |-> <<SetItems(EmptySlots(MINSIZE),
                                               p.categories, 1)>>]],
              data, 1, p)

\* The table a caller reads: stats[g][c].
Table(st) == [g \in DOMAIN st.stats |-> st.heap[st.stats[g]]]

generate_statistics ==
    /\ pc = "generate_statistics"
    /\ my_impact_stats' = GenerateStatistics(my_impact.data, parameters)
    /\ pc' = "generate_report"
    /\ UNCHANGED <<parameters, my_hazard, my_exposure, my_impact,
                   max_impact_value, error>>
    /\ UNCHANGED <<my_impact_table, flood_vars, map_vars>>

(***************************************************************************)
(* generate_report: the header row, then one row per item of stats with    *)
(* the values of its dict, each in the order of iteration of its dict.     *)
(***************************************************************************)

NoTable == [header |-> << >>, rows |-> << >>]

GenerateReport(st, p) ==
    LET names == SlotOrder(st.slots.stats)
        row(name) ==
            LET categories == st.heap[st.stats[name]]
                keys       == SlotOrder(st.slots.heap[st.stats[name]])
            IN  [name  |-> name,
                 cells |-> [k \in 1..Len(keys) |-> categories[keys[k]]]]
    IN  [header |-> <<p.exposure_id_field>> \o p.categories_labels,
         rows   |-> [n \in 1..Len(names) |-> row(names[n])]]

generate_report ==
    /\ pc = "generate_report"
    /\ my_impact_table' = GenerateReport(my_impact_stats, parameters)
    /\ pc' = "return"
    /\ UNCHANGED <<parameters, my_hazard, my_exposure, my_impact,
                   max_impact_value, my_impact_stats, error>>
    /\ UNCHANGED <<flood_vars, map_vars>>

(***************************************************************************)
(* FloodRasterBuildingFunction.  Depths and thresholds are in tenths of a  *)
(* metre; a depth is [nan, v]: float('nan'), for which every comparison    *)
(* is false, or the number v.                                              *)
(***************************************************************************)

Depth(v) == [nan |-> FALSE, v |-> v]

NaN == [nan |-> TRUE, v |-> 0]

\* water_depth <= t and water_depth >= t
DepthLeq(water_depth, t) == ~water_depth.nan /\ water_depth.v <= t

DepthGeq(water_depth, t) == ~water_depth.nan /\ water_depth.v >= t

\* The documented default values of the parameters.
DefaultThreshold == 10

DefaultThresholds == <<2, 10, 15, 20>>

\* _affected_categories
AffectedCategories(thresholds) ==
    IF thresholds.enable_parameter
    THEN <<"Low inundation", "Medium inundation", "High inundation",
           "Extreme inundation">>
    ELSE <<"Flooded", "Wet">>

\* hazard_classes of run
HazardClasses(thresholds) == <<"Dry">> \o AffectedCategories(thresholds)

\* inundated_status with the upper bounds of the classes open: < for <=.
InundatedStatus_OpenUpper(water_depth, threshold, thresholds) ==
    LET below(t) == ~water_depth.nan /\ water_depth.v < t IN
    IF thresholds.enable_parameter
    THEN IF DepthLeq(water_depth, 0) THEN 0
         ELSE IF below(thresholds.value[1]) THEN 1
         ELSE IF below(thresholds.value[2]) THEN 2
         ELSE IF below(thresholds.value[3]) THEN 3
         ELSE 4
    ELSE IF DepthLeq(water_depth, 0) THEN 0
         ELSE IF DepthGeq(water_depth, threshold) THEN 1
         ELSE 2

\* The body of the loop of run: inundated_status of one feature.
InundatedStatus(water_depth, threshold, thresholds) ==
    LET low_threshold    == thresholds.value[1]
        medium_threshold == thresholds.value[2]
        high_threshold   == thresholds.value[3]
    IN  IF thresholds.enable_parameter
        THEN IF DepthLeq(water_depth, 0) THEN 0
             ELSE IF DepthLeq(water_depth, low_threshold) THEN 1
             ELSE IF DepthLeq(water_depth, medium_threshold) THEN 2
             ELSE IF DepthLeq(water_depth, high_threshold) THEN 3
             ELSE 4
        ELSE IF DepthLeq(water_depth, 0) THEN 0
             ELSE IF DepthGeq(water_depth, threshold) THEN 1
             ELSE 2

\* style_classes of run
StyleClasses ==
    <<[label |-> "Dry (<= 0 m)", value |-> 0, colour |-> "#1EFC7C"],
      [label |-> "Wet (0 m - threshold)", value |-> 2, colour |-> "#FF9900"],
      [label |-> "Flooded (>= threshold)", value |-> 1, colour |-> "#F31A1C"]>>

NoImpact == [returned |-> FALSE, data |-> << >>, categories |-> << >>,
             style_classes |-> << >>]

\* run: every feature gets its inundated_status in the target field and is
\* counted under hazard_classes[inundated_status]; the layer is returned
\* with the style classes.
flood_run ==
    /\ flood_pc = "run"
    /\ LET threshold  == flood_parameters.threshold
           thresholds == flood_parameters.thresholds
           status(i)  == InundatedStatus(interpolated_layer[i].depth,
                                         threshold, thresholds)
           features   == [i \in 1..Len(interpolated_layer) |->
                             [interpolated_layer[i] EXCEPT
                                 !.target_field = status(i)]]
       IN  /\ interpolated_layer' = features
           /\ flood_impact' =
                 [returned |-> TRUE,
                  data |-> features,
                  categories |-> [i \in 1..Len(features) |->
                                     HazardClasses(thresholds)[status(i) + 1]],
                  style_classes |-> StyleClasses]
    /\ flood_pc' = "done"
    /\ UNCHANGED <<flood_parameters, category_vars, map_vars>>

(***************************************************************************)
(* thresholds()._group_validator, the custom validator of the thresholds   *)
(* group.  previous_value is None before the first value; Python 2 orders  *)
(* None before every number, so value <= None is false.                    *)
(***************************************************************************)

None == [none |-> TRUE, v |-> 0]

Some(v) == [none |-> FALSE, v |-> v]

\* value <= previous_value
ValueLeq(value, previous_value) ==
    ~previous_value.none /\ value <= previous_value.v

\* not_ordered, with the comparison value < previous_value: ties pass.
NotOrdered_TiesPass(parameters_values) ==
    \E i \in 2..Len(parameters_values) :
        parameters_values[i] < parameters_values[i - 1]

\* not_ordered after the loop: some value is <= the previous_value that the
\* loop holds when it reaches it (None for the first one).
NotOrdered(parameters_values) ==
    \E i \in 1..Len(parameters_values) :
        ValueLeq(parameters_values[i],
                 IF i = 1 THEN None ELSE Some(parameters_values[i - 1]))

\* _group_validator(parameters): raises ValueError when not_ordered.
group_validator ==
    /\ flood_pc = "validate"
    /\ flood_pc' = IF NotOrdered(flood_parameters.thresholds.value)
                   THEN "ValueError"
                   ELSE "validated"
    /\ UNCHANGED <<flood_parameters, interpolated_layer, flood_impact>>
    /\ UNCHANGED <<category_vars, map_vars>>

(***************************************************************************)
(* make_map.  The script is Python 2.  A construction ShakeEvent(...)      *)
(* returns or raises, and so does renderMap: which of them, the            *)
(* environment chooses.  shake_events, render_calls and LOGGER record the  *)
(* calls in their order.                                                   *)
(***************************************************************************)

\* What ShakeEvent(...) and renderMap(...) can do.
ShakeEventOutcomes == {"ok", "BadZipfile", "URLError", "IOError"}

RenderMapOutcomes == {"ok", "RuntimeError"}

\* 'except BadZipfile, URLError:' is true of the exceptions that are
\* instances of BadZipfile; the exception is bound to the name URLError.
ExceptBadZipfileAsURLError(exception) == exception = "BadZipfile"

\* processEvent(theEventId): what it calls, what it logs and the exception
\* it ends with ("" when it returns), when the first construction does o1,
\* the one of the handler o2 and renderMap does r.
processEvent(theEventId, force, o1, o2, r) ==
    LET construct(flag, o) == [theEventId   |-> theEventId,
                               theForceFlag |-> flag,
                               outcome      |-> o]
        render == [theEventId |-> theEventId, theForceFlag |-> force]
        rendered(constructions) ==
            [shake_events |-> constructions,
             render_calls |-> <<render>>,
             logged       |-> << >>,
             raised       |-> IF r = "ok" THEN "" ELSE r]
    IN  IF o1 = "ok" THEN rendered(<<construct(force, o1)>>)
        ELSE IF ExceptBadZipfileAsURLError(o1)
        THEN IF o2 = "ok"
             THEN rendered(<<construct(force, o1), construct(TRUE, o2)>>)
             ELSE [shake_events |-> <<construct(force, o1), construct(TRUE, o2)>>,
                   render_calls |-> << >>,
                   logged       |-> << >>,
                   raised       |-> o2]
        ELSE [shake_events |-> <<construct(force, o1)>>,
              render_calls |-> << >>,
              logged       |-> <<"An error occurred setting up the shake event.">>,
              raised       |-> ""]

\* t in s, for strings
StrIn(t, s) ==
    \E i \in 1..(Len(s) - Len(t) + 1) : SubSeq(s, i, i + Len(t) - 1) = t

\* myEvent.replace(old, ''), for an old that is at most once in myEvent
Remove(myEvent, old) ==
    IF ~StrIn(old, myEvent) THEN myEvent
    ELSE LET i == CHOOSE j \in 1..(Len(myEvent) - Len(old) + 1) :
                      SubSeq(myEvent, j, j + Len(old) - 1) = old
         IN  SubSeq(myEvent, 1, i - 1)
                 \o SubSeq(myEvent, i + Len(old), Len(myEvent))

\* The script from its argument on: --list prints the listing, --run-all
\* starts the loop over the listing, anything else is the id of the one
\* event to process.
main ==
    /\ map_pc = "main"
    /\ IF StrIn(myEventId, "--list")
       THEN /\ map_pc' = "exit"
            /\ UNCHANGED <<event_index, shake_events, render_calls, LOGGER>>
       ELSE IF StrIn(myEventId, "--run-all")
       THEN /\ map_pc' = "run-all"
            /\ event_index' = 1
            /\ UNCHANGED <<shake_events, render_calls, LOGGER>>
       ELSE \E o1, o2 \in ShakeEventOutcomes, r \in RenderMapOutcomes :
                LET e == processEvent(myEventId, myForceFlag, o1, o2, r) IN
                /\ shake_events' = shake_events \o e.shake_events
                /\ render_calls' = render_calls \o e.render_calls
                /\ LOGGER' = LOGGER \o e.logged
                /\ map_pc' = IF e.raised = "" THEN "exit" ELSE "raised"
                /\ UNCHANGED event_index
    /\ UNCHANGED <<myEventId, myListing, myForceFlag>>
    /\ UNCHANGED <<category_vars, flood_vars>>

\* One turn of the loop of --run-all, sys.exit(0) after the last one.
run_all ==
    /\ map_pc = "run-all"
    /\ IF event_index > Len(myListing)
       THEN /\ map_pc' = "exit"
            /\ UNCHANGED <<event_index, shake_events, render_calls, LOGGER>>
       ELSE IF ~StrIn("out", myListing[event_index])
       THEN /\ event_index' = event_index + 1
            /\ UNCHANGED <<shake_events, render_calls, LOGGER, map_pc>>
       ELSE \E o1, o2 \in ShakeEventOutcomes, r \in RenderMapOutcomes :
                LET myEvent == Remove(Remove(myListing[event_index],
                                             "ftp://118.97.83.243/"),
                                      ".out.zip")
                    e == processEvent(myEvent, myForceFlag, o1, o2, r)
                IN  /\ shake_events' = shake_events \o e.shake_events
                    /\ render_calls' = render_calls \o e.render_calls
                    /\ LOGGER' = LOGGER \o e.logged \o
                           (IF e.raised = "" THEN << >>
                            ELSE <<"Failed to process " \o myEvent>>)
                    /\ event_index' = event_index + 1
                    /\ UNCHANGED map_pc
    /\ UNCHANGED <<myEventId, myListing, myForceFlag>>
    /\ UNCHANGED <<category_vars, flood_vars>>

(***************************************************************************)
(* Runs                                                                    *)
(***************************************************************************)

\* The largest number of features of an exposure layer, of polygons of a
\* hazard layer, and the largest coordinate.
MaxFeatures == 2
MaxHazard == 2
GridMax == 3

Segments == {s \in (0..GridMax) \X (0..GridMax) : s[1] < s[2]}

SeqsUpTo(S, n) == UNION {[1..k -> S] : k \in 1..n}

Feature(id, pop, area) == [id |-> id, pop |-> PyInt(pop), area |-> PyInt(area)]

ExposureNames == {"id", "pop", "area"}

HazardLayer(field, geometry, levels) ==
    [names |-> {field},
     data |-> [i \in 1..Len(geometry) |-> SetItem(<< >>, field, levels[i])],
     geometry |-> geometry]

FloodIdle ==
    /\ flood_parameters = [threshold |-> DefaultThreshold,
                           thresholds |-> [enable_parameter |-> FALSE,
                                           value |-> DefaultThresholds]]
    /\ interpolated_layer = << >>
    /\ flood_impact = NoImpact
    /\ flood_pc = "idle"

MapIdle ==
    /\ myEventId = "None"
    /\ myListing = << >>
    /\ myForceFlag = FALSE
    /\ event_index = 0
    /\ shake_events = << >>
    /\ render_calls = << >>
    /\ LOGGER = << >>
    /\ map_pc = "idle"

CategoryIdle ==
    /\ parameters = DefaultParameters
    /\ my_hazard = NoLayer
    /\ my_exposure = NoLayer
    /\ my_impact = NoLayer
    /\ max_impact_value = PyInt(0)
    /\ my_impact_stats = NoStats
    /\ my_impact_table = NoTable
    /\ pc = "idle"
    /\ error = ""

\* run(layers) of the category function is called with hazard layer h and
\* exposure layer x under parameters p.
StartRun(h, x, p) ==
    /\ parameters = p
    /\ my_hazard = h
    /\ my_exposure = x
    /\ my_impact = NoLayer
    /\ max_impact_value = PyInt(0)
    /\ my_impact_stats = NoStats
    /\ my_impact_table = NoTable
    /\ pc = "add_density"
    /\ error = ""
    /\ FloodIdle
    /\ MapIdle

\* The steps of run of the category function.
Next ==
    \/ add_density
    \/ deintersect_exposure
    \/ assign_hazard_level
    \/ multiply_density_by_area
    \/ generate_statistics
    \/ generate_report

\* Spatial assignment: any hazard and exposure geometry, one group per
\* feature, population 10 on area 2.
HazardFieldNames == {"haz_level", "keys"}

HazardLevels == {1, 2}

Init ==
    \E f \in HazardFieldNames :
    \E hg \in SeqsUpTo(Segments, MaxHazard) :
    \E hl \in [1..Len(hg) -> HazardLevels] :
    \E g \in SeqsUpTo(Segments, MaxFeatures) :
        StartRun(HazardLayer(f, hg, hl),
                 [names |-> ExposureNames,
                  data |-> [i \in 1..Len(g) |-> Feature(i, 10, 2)],
                  geometry |-> g],
                 [DefaultParameters EXCEPT !.hazard_field = f])

Spec == Init /\ [][Next]_vars

\* Density: any populations and areas, every feature inside the one hazard
\* polygon.
PopValues == {0, 10, 15}

AreaValues == {-2, 0, 2, 11}

InitDensity ==
    \E n \in 1..MaxFeatures :
    \E pops \in [1..n -> PopValues] :
    \E areas \in [1..n -> AreaValues] :
        StartRun(HazardLayer("haz_level", <<<<0, 2>>>>, <<1>>),
                 [names |-> ExposureNames,
                  data |-> [i \in 1..n |-> Feature(i, pops[i], areas[i])],
                  geometry |-> [i \in 1..n |-> <<0, 1>>]],
                 DefaultParameters)

SpecDensity == InitDensity /\ [][Next]_vars

\* Statistics: features of any group, population and place, under a hazard
\* layer with a polygon of category 2 and a polygon of category 7, which is
\* none of the configured categories.
MaxStatFeatures == 3

GroupIds == {1, 2}

StatPops == {3, 5}

StatPlaces == {<<0, 1>>, <<1, 2>>, <<2, 3>>}

InitStats ==
    \E n \in 1..MaxStatFeatures :
    \E ids \in [1..n -> GroupIds] :
    \E pops \in [1..n -> StatPops] :
    \E g \in [1..n -> StatPlaces] :
        StartRun(HazardLayer("haz_level", <<<<0, 1>>, <<2, 3>>>>, <<2, 7>>),
                 [names |-> ExposureNames,
                  data |-> [i \in 1..n |-> Feature(ids[i], pops[i], 1)],
                  geometry |-> g],
                 DefaultParameters)

SpecStats == InitStats /\ [][Next]_vars

\* The scenario of three hazard categories 1, 2, 3 as non-overlapping
\* polygons, in any order and place, and two exposure features, in any
\* order and of any of three areas: population 100 inside the polygon of
\* category 2 and population 50 outside every hazard polygon.
ScenarioAreas == {1, 4, 11}

ScenarioPlaces == {<<<<0, 1>>, <<1, 2>>, <<2, 3>>>>,
                   <<<<1, 2>>, <<2, 3>>, <<0, 1>>>>,
                   <<<<4, 5>>, <<0, 1>>, <<2, 3>>>>}

InitScenario ==
    \E hg \in ScenarioPlaces :
    \E hl \in {l \in [1..3 -> {1, 2, 3}] : \A i, j \in 1..3 : l[i] = l[j] => i = j} :
    \E a1, a2 \in ScenarioAreas :
    \E first \in {1, 2} :
        LET in2  == hg[CHOOSE i \in 1..3 : hl[i] = 2]
            out  == <<3, 4>>
            f100 == Feature(1, 100, a1)
            f50  == Feature(2, 50, a2)
        IN  StartRun(HazardLayer("haz_level", hg, hl),
                     [names |-> ExposureNames,
                      data |-> IF first = 1 THEN <<f100, f50>>
                               ELSE <<f50, f100>>,
                      geometry |-> IF first = 1 THEN <<in2, out>>
                                   ELSE <<out, in2>>],
                     DefaultParameters)

SpecScenario == InitScenario /\ [][Next]_vars

\* Flood: buildings of any depth, under any strictly increasing thresholds
\* in multi-threshold mode or any threshold in single-threshold mode; and
\* the documented thresholds with the depths -0.1, 0.0, 0.2, 0.9, 1.5, 3.0.
MaxBuildings == 2
MaxDepth == 5

IncreasingThresholds ==
    {t \in [1..4 -> 1..MaxDepth] : \A i \in 1..3 : t[i] < t[i + 1]}

Depths == {Depth(v) : v \in (-1)..(MaxDepth + 1)} \cup {NaN}

ExampleDepths == <<Depth(-1), Depth(0), Depth(2), Depth(9), Depth(15), Depth(30)>>

StartFlood(threshold, enable, thresholds, depths) ==
    /\ flood_parameters = [threshold |-> threshold,
                           thresholds |-> [enable_parameter |-> enable,
                                           value |-> thresholds]]
    /\ interpolated_layer = [i \in 1..Len(depths) |->
                                [depth |-> depths[i], target_field |-> NO_DATA]]
    /\ flood_impact = NoImpact
    /\ flood_pc = "run"
    /\ CategoryIdle
    /\ MapIdle

InitFlood ==
    \/ \E t \in IncreasingThresholds, d \in SeqsUpTo(Depths, MaxBuildings) :
           StartFlood(DefaultThreshold, TRUE, t, d)
    \/ \E t \in 1..MaxDepth, d \in SeqsUpTo(Depths, MaxBuildings) :
           StartFlood(t, FALSE, DefaultThresholds, d)
    \/ \E enable \in BOOLEAN :
           StartFlood(DefaultThreshold, enable, DefaultThresholds, ExampleDepths)

NextFlood == flood_run

SpecFlood == InitFlood /\ [][NextFlood]_vars

\* Fields: the population attribute of the exposure layer and the
\* configured 'exposure field' are each any of two names, so that the
\* configured field can be absent from the layer.
FieldNames == {"pop", "persons"}

FieldAreas == {2, 11}

FeatureWith(field, id, pop, area) ==
    SetItem(SetItem(SetItem(<< >>, "id", id), field, PyInt(pop)),
            "area", PyInt(area))

InitFields ==
    \E configured \in FieldNames :
    \E present \in FieldNames :
    \E n \in 1..MaxFeatures :
    \E pops \in [1..n -> PopValues] :
    \E areas \in [1..n -> FieldAreas] :
        StartRun(HazardLayer("haz_level", <<<<0, 2>>>>, <<1>>),
                 [names |-> {"id", present, "area"},
                  data |-> [i \in 1..n |->
                               FeatureWith(present, i, pops[i], areas[i])],
                  geometry |-> [i \in 1..n |-> <<0, 1>>]],
                 [DefaultParameters EXCEPT !.exposure_field = configured])

SpecFields == InitFields /\ [][Next]_vars

\* Validation: the validator is handed any sequence of up to MaxThresholds
\* values, negative ones included.
MaxThresholds == 4

ThresholdValues == (-2)..MaxDepth

StartValidate(values) ==
    /\ flood_parameters = [threshold |-> DefaultThreshold,
                           thresholds |-> [enable_parameter |-> TRUE,
                                           value |-> values]]
    /\ interpolated_layer = << >>
    /\ flood_impact = NoImpact
    /\ flood_pc = "validate"
    /\ CategoryIdle
    /\ MapIdle

InitValidate ==
    \E values \in SeqsUpTo(ThresholdValues, MaxThresholds) :
        StartValidate(values)

NextValidate == group_validator

SpecValidate == InitValidate /\ [][NextValidate]_vars

\* make_map: the script is started with any of its arguments and either
\* value of the force flag, against any listing of at most MaxEvents files.
MaxEvents == 3

ListingEntries == {"ftp://118.97.83.243/20120726022003.out.zip",
                   "ftp://118.97.83.243/20120726022003.inp.zip",
                   "ftp://118.97.83.243/20120118231542.out.zip"}

Arguments == {"None", "20120726022003", "--list", "--run-all"}

InitMap ==
    /\ myEventId \in Arguments
    /\ myListing \in SeqsUpTo(ListingEntries, MaxEvents) \cup {<< >>}
    /\ myForceFlag \in BOOLEAN
    /\ event_index = 0
    /\ shake_events = << >>
    /\ render_calls = << >>
    /\ LOGGER = << >>
    /\ map_pc = "main"
    /\ CategoryIdle
    /\ FloodIdle

NextMap == main \/ run_all

SpecMap == InitMap /\ [][NextMap]_vars

(***************************************************************************)
(* Properties of assign_hazard_level                                       *)
(***************************************************************************)

Assigned == pc \in {"multiply_density_by_area", "generate_statistics",
                    "generate_report"}

HazardLevel(h) == my_hazard.data[h][parameters.hazard_field]

\* The hazard polygons that contain the centroid of exposure feature i.
Containing(i) ==
    {h \in 1..Len(my_hazard.geometry) :
        IsInsidePolygon(Centroid2(my_exposure.geometry[i]),
                        my_hazard.geometry[h])}

\* Two segments overlap when they share more than an end point.
Overlap(s, t) == s[1] < t[2] /\ t[1] < s[2]

NonOverlapping ==
    \A h1, h2 \in 1..Len(my_hazard.geometry) :
        h1 # h2 => ~Overlap(my_hazard.geometry[h1], my_hazard.geometry[h2])

\* Some assignment would overwrite a class other than NO_DATA: a centroid
\* lies in two hazard polygons and the earlier one carries a class.
WouldOverwrite ==
    \E i \in 1..Len(my_exposure.geometry) :
    \E h1, h2 \in Containing(i) : h1 < h2 /\ HazardLevel(h1) # NO_DATA

\* C1: when a centroid lies inside two or more hazard polygons, so that an
\* assignment would overwrite a class already set, the run aborts with an
\* error: it never gets past assign_hazard_level.
C1_OverlapAborts ==
    (WouldOverwrite /\ pc # "add_density" /\ pc # "deintersect_exposure"
        /\ pc # "assign_hazard_level")
    => pc = "error"

MultiThreshold ==
    flood_pc = "done" /\ flood_parameters.thresholds.enable_parameter

T(k) == flood_parameters.thresholds.value[k]

\* The features whose depth is a number.
Numeric == {i \in 1..Len(interpolated_layer) : ~interpolated_layer[i].depth.nan}

DepthOf(i) == interpolated_layer[i].depth.v

ClassOf(i) == interpolated_layer[i].target_field

C4_ThresholdsAreCutPoints ==
    MultiThreshold =>
        /\ \A k \in 1..4 : \A a, b \in Numeric :
               (DepthOf(a) = T(k) /\ DepthOf(b) > T(k))
                   => ClassOf(b) > ClassOf(a)
        /\ \A i \in Numeric :
               LET label == flood_impact.categories[i] IN
               /\ DepthOf(i) > T(4) => label = "Extreme inundation"
               /\ (T(3) < DepthOf(i) /\ DepthOf(i) <= T(4))
                      => label = "High inundation"
               /\ (T(2) < DepthOf(i) /\ DepthOf(i) <= T(3))
                      => label = "Medium inundation"
               /\ (T(1) < DepthOf(i) /\ DepthOf(i) <= T(2))
                      => label = "Low inundation"

(***************************************************************************)
(* Properties of the density round trip                                    *)
(***************************************************************************)

PyNeg(x) == [x EXCEPT !.s = 1 - @]

PyAbs(x) == [x EXCEPT !.s = 0]

\* |x - y| <= |y| * 2^-52: x is y up to the rounding of two float operations.
Close(x, y) ==
    LET tol == IF IsZero(y) THEN y ELSE [y EXCEPT !.s = 0, !.e = @ - 52] IN
    ~PyGt(PyAbs(PyAdd(x, PyNeg(y))), tol)

Multiplied == pc \in {"generate_statistics", "generate_report"}

PopField == parameters.exposure_field

\* max_impact_value is the largest count written, 0 when none is positive.
MaxIsLargest ==
    /\ \A i \in 1..Len(my_impact.data) :
           ~PyGt(my_impact.data[i][PopField], max_impact_value)
    /\ \/ max_impact_value = PyInt(0)
       \/ \E i \in 1..Len(my_impact.data) :
              max_impact_value = my_impact.data[i][PopField]

AreaNotPositive(att) == IsZero(att["area"]) \/ att["area"].s = 1

\* C10: when a feature has an area <= 0, add_density raises and the run is
\* aborted; no density is stored for a feature with area <= 0.
C10_NonPositiveAreaFails ==
    /\ (pc # "add_density"
        /\ \E i \in 1..Len(my_exposure.data) :
               AreaNotPositive(my_exposure.data[i]))
       => pc = "error"
    /\ \A i \in 1..Len(my_exposure.data) :
           AreaNotPositive(my_exposure.data[i])
               => "density" \notin DOMAIN my_exposure.data[i]

(***************************************************************************)
(* Properties of generate_statistics                                       *)
(***************************************************************************)

Reported == pc = "generate_report"

Categories ==
    {parameters.categories[i] : i \in 1..Len(parameters.categories)}

GroupOf(att) == att[parameters.exposure_id_field]

LevelOf(att) == att[parameters.hazard_field]

\* stats[g][c], 0 where the table has no such cell.
Cell(st, g, c) ==
    IF g \in DOMAIN st.stats /\ c \in DOMAIN st.heap[st.stats[g]]
    THEN st.heap[st.stats[g]][c]
    ELSE PyInt(0)

\* The sum of the counts of the first n features of group g and class c.
RECURSIVE SumCounts(_, _, _, _)
SumCounts(data, n, g, c) ==
    IF n = 0 THEN PyInt(0)
    ELSE IF GroupOf(data[n]) = g /\ LevelOf(data[n]) = c
    THEN PyAdd(SumCounts(data, n - 1, g, c), data[n][PopField])
    ELSE SumCounts(data, n - 1, g, c)

Levels(data) == {LevelOf(data[i]) : i \in 1..Len(data)}

Groups(data) == {GroupOf(data[i]) : i \in 1..Len(data)}

\* The class of the feature of population p in the scenario, and its area.
ScenarioFeature(p) ==
    CHOOSE i \in 1..Len(my_exposure.data) :
        PyEq(my_exposure.data[i]["pop"], PyInt(p))

ScenarioClass(p) == LevelOf(my_impact.data[ScenarioFeature(p)])

\* The row of a group is zero but for one cell, which is the count v up to
\* floating-point rounding.
RowIs(row, columns, c, v) ==
    /\ DOMAIN row = columns
    /\ \A d \in columns \ {c} : IsZero(row[d])
    /\ Close(row[c], PyInt(v))

\* C5 as claimed: the scenario yields the classes 2 and 0 and the table
\* {1: {0:0, 1:0, 2:100, 3:0}, 2: {0:50, 1:0, 2:0, 3:0}}.
C5_ScenarioClassZero ==
    Reported =>
        /\ ScenarioClass(100) = 2
        /\ ScenarioClass(50) = 0
        /\ DOMAIN Table(my_impact_stats) = {1, 2}
        /\ RowIs(Table(my_impact_stats)[1], {0, 1, 2, 3}, 2, 100)
        /\ RowIs(Table(my_impact_stats)[2], {0, 1, 2, 3}, 0, 50)

\* C5, amended: the scenario yields the classes 2 and NO_DATA (-9999) and
\* the table {1: {-9999:0, 0:0, 1:0, 2:100, 3:0}, 2: {-9999:50, 0:0, 1:0,
\* 2:0, 3:0}}, the two counts up to the rounding of count / area * area
\* (exactly 100 and 50 for the areas 1 and 4).
C5_ScenarioNoData ==
    Reported =>
        /\ ScenarioClass(100) = 2
        /\ ScenarioClass(50) = NO_DATA
        /\ DOMAIN Table(my_impact_stats) = {1, 2}
        /\ RowIs(Table(my_impact_stats)[1], {NO_DATA, 0, 1, 2, 3}, 2, 100)
        /\ RowIs(Table(my_impact_stats)[2], {NO_DATA, 0, 1, 2, 3}, NO_DATA, 50)
        /\ \A i \in 1..2 :
               my_exposure.data[i]["area"] \in {PyInt(1), PyInt(4)}
                   => PyEq(Cell(my_impact_stats, GroupOf(my_impact.data[i]),
                                LevelOf(my_impact.data[i])),
                           my_exposure.data[i]["pop"])

\* The scenario run to its table, both counts exact.
C5_Witness ==
    /\ Reported
    /\ DOMAIN Table(my_impact_stats) = {1, 2}
    /\ PyEq(Table(my_impact_stats)[1][2], PyInt(100))
    /\ PyEq(Table(my_impact_stats)[2][NO_DATA], PyInt(50))
    /\ ScenarioClass(50) = NO_DATA

\* C6: generate_statistics drops nothing: stats[g][c] is the sum of the
\* counts of the features of group g and class c, for every group and
\* every class, configured or not.
C6_EveryCountAdded ==
    Reported =>
        \A g \in Groups(my_impact.data) :
        \A c \in Levels(my_impact.data) \cup Categories :
            PyEq(Cell(my_impact_stats, g, c),
                 SumCounts(my_impact.data, Len(my_impact.data), g, c))

\* C7: generate_statistics returns the same table for every permutation of
\* the features.
C7_OrderIndependent ==
    Reported =>
        \A perm \in Permutations(1..Len(my_impact.data)) :
            Table(GenerateStatistics(
                      [i \in 1..Len(my_impact.data) |-> my_impact.data[perm[i]]],
                      parameters))
                = Table(my_impact_stats)

\* C8: every group of the table has a cell for every configured category,
\* zero when no feature of the group has that class, and no two groups
\* share a row, nor does a group share initial_stats.
C8_ZeroFilledRows ==
    Reported =>
        /\ DOMAIN my_impact_stats.stats = Groups(my_impact.data)
        /\ \A g \in DOMAIN my_impact_stats.stats :
               LET row == my_impact_stats.heap[my_impact_stats.stats[g]] IN
               /\ Categories \subseteq DOMAIN row
               /\ \A c \in Categories :
                      (\A i \in 1..Len(my_impact.data) :
                           ~(GroupOf(my_impact.data[i]) = g
                             /\ LevelOf(my_impact.data[i]) = c))
                          => IsZero(row[c])
               /\ my_impact_stats.stats[g] # 1
        /\ \A g1, g2 \in DOMAIN my_impact_stats.stats :
               g1 # g2 => my_impact_stats.stats[g1] # my_impact_stats.stats[g2]
        /\ \A c \in Categories : IsZero(my_impact_stats.heap[1][c])

\* A table of two groups, one with a count in a configured class and zeros
\* in the others, one with a count in another class.
C8_Witness ==
    /\ Reported
    /\ DOMAIN my_impact_stats.stats = {1, 2}
    /\ ~IsZero(Cell(my_impact_stats, 1, 2))
    /\ IsZero(Cell(my_impact_stats, 1, NO_DATA))
    /\ ~IsZero(Cell(my_impact_stats, 2, NO_DATA))
    /\ IsZero(Cell(my_impact_stats, 2, 2))

(***************************************************************************)
(* Properties of run: its errors and its inputs                            *)
(***************************************************************************)

\* The configured population field is none of the attribute names of the
\* exposure layer.
FieldMissing == parameters.exposure_field \notin my_exposure.names

\* No mapping of the exposure layer has been written to, and no later stage
\* of run has produced anything.
NothingDone ==
    /\ \A i \in 1..Len(my_exposure.data) :
           DOMAIN my_exposure.data[i] = my_exposure.names
    /\ my_impact = NoLayer
    /\ my_impact_stats = NoStats
    /\ my_impact_table = NoTable

\* C11: when the configured population field is absent from the attribute
\* names of the exposure layer, run ends in an error whose message names the
\* missing field, with no attribute modified and no later stage run.
C11_MissingFieldNamed ==
    (FieldMissing /\ pc # "add_density") =>
        /\ pc = "error"
        /\ StrIn(parameters.exposure_field, error)
        /\ NothingDone

\* C11, without the name in the message: when the configured population
\* field is absent, run ends in the RuntimeError of add_density, with no
\* attribute modified and no later stage run.
C11_MissingFieldAborts ==
    (FieldMissing /\ pc # "add_density") =>
        /\ pc = "error"
        /\ error = "RuntimeError: No population field found"
        /\ NothingDone

\* A run that add_density ended because the field 'persons' is configured
\* and the layer has 'pop'.
C11_Witness ==
    /\ FieldMissing
    /\ parameters.exposure_field = "persons"
    /\ pc = "error"


\* C12: the exposure layer handed to run is never mutated: no step of run,
\* whether run returns or aborts part-way, changes the attribute mappings
\* (or anything else) of my_exposure; density, class and count are written
\* to the working copy only.
C12_ExposureNeverMutated == [][my_exposure' = my_exposure]_vars

\* C12, for the steps after the copy is made: deintersect_exposure,
\* assign_hazard_level, multiply_density_by_area and generate_statistics
\* leave my_exposure as it is.
C12_CopyIsolatesExposure ==
    [][pc # "add_density" => my_exposure' = my_exposure]_vars


(***************************************************************************)
(* Properties of _group_validator                                          *)
(***************************************************************************)

Validated == flood_pc \in {"ValueError", "validated"}

StrictlyIncreasing(values) ==
    \A i \in 2..Len(values) : values[i - 1] < values[i]

\* C13: the validator raises ValueError for every sequence in which some
\* value is less than or equal to the value before it, and raises nothing
\* for every strictly increasing sequence, whatever its length and the sign
\* of its first value.
C13_AcceptsStrictlyIncreasing ==
    Validated =>
        LET values == flood_parameters.thresholds.value
        IN  /\ StrictlyIncreasing(values) => flood_pc = "validated"
            /\ ~StrictlyIncreasing(values) => flood_pc = "ValueError"

\* A sequence of one negative value that passed the validator.
C13_Witness ==
    /\ flood_pc = "validated"
    /\ Len(flood_parameters.thresholds.value) = 1
    /\ flood_parameters.thresholds.value[1] < 0


(***************************************************************************)
(* Properties of generate_report                                           *)
(***************************************************************************)

Returned == pc = "return"

\* The group keys of the first n features, in the order in which they are
\* first met.
RECURSIVE FirstEncountered(_, _)
FirstEncountered(data, n) ==
    IF n = 0 THEN << >>
    ELSE LET before == FirstEncountered(data, n - 1)
             g == GroupOf(data[n])
         IN  IF \E k \in 1..Len(before) : before[k] = g THEN before
             ELSE Append(before, g)

RowNames(table) == [n \in 1..Len(table.rows) |-> table.rows[n].name]

\* C14: the header of the table is the id field followed by the category
\* labels in their configured order; there is one row per group key, the
\* rows in the order in which the keys were first met in the layer; and in
\* each row the i-th cell is the total of the i-th category of the header.
C14_ReportAligned ==
    Returned =>
        /\ my_impact_table.header
               = <<parameters.exposure_id_field>> \o parameters.categories_labels
        /\ RowNames(my_impact_table)
               = FirstEncountered(my_impact.data, Len(my_impact.data))
        /\ \A n \in 1..Len(my_impact_table.rows) :
               LET row == my_impact_table.rows[n] IN
               /\ Len(row.cells) = Len(parameters.categories)
               /\ \A i \in 1..Len(row.cells) :
                      PyEq(row.cells[i],
                           Cell(my_impact_stats, row.name,
                                parameters.categories[i]))

\* C14, without the orders: the header is the id field followed by the
\* labels, and there is one row per group key.
C14_HeaderAndRowPerGroup ==
    Returned =>
        /\ my_impact_table.header
               = <<parameters.exposure_id_field>> \o parameters.categories_labels
        /\ Len(my_impact_table.rows) = Cardinality(Groups(my_impact.data))
        /\ {my_impact_table.rows[n].name : n \in 1..Len(my_impact_table.rows)}
               = Groups(my_impact.data)


(***************************************************************************)
(* Properties of the style of FloodRasterBuildingFunction.run              *)
(***************************************************************************)

\* The class values run can write into the target field in the mode it
\* ran in.
ClassValues == IF MultiThreshold THEN 0..4 ELSE 0..2

\* The style classes of the returned layer whose value is v.
StyleClassesOf(v) ==
    {k \in 1..Len(flood_impact.style_classes) :
        flood_impact.style_classes[k].value = v}

\* Every class value is the value of exactly one style class and an index
\* into hazard_classes, and the features hold class values only.
OneStylePerClass ==
    /\ \A v \in ClassValues :
           /\ Cardinality(StyleClassesOf(v)) = 1
           /\ v + 1 \in 1..Len(HazardClasses(flood_parameters.thresholds))
    /\ \A i \in 1..Len(flood_impact.data) :
           flood_impact.data[i].target_field \in ClassValues

\* C15: in single-threshold and in multi-threshold mode, every class value
\* that run can write (0..2, respectively 0..4) is the value of exactly one
\* style class of the returned layer and a valid index into hazard_classes.
C15_OneStylePerClass == flood_impact.returned => OneStylePerClass

\* C15, in single-threshold mode only.
C15_SingleThresholdStyled ==
    (flood_impact.returned /\ ~MultiThreshold) => OneStylePerClass


(***************************************************************************)
(* Properties of make_map.  A step of the script holds at most one call    *)
(* of processEvent: what the step adds to shake_events, render_calls and   *)
(* LOGGER is what that call did.                                           *)
(***************************************************************************)

NewShakeEvents ==
    SubSeq(shake_events', Len(shake_events) + 1, Len(shake_events'))

NewRenderCalls ==
    SubSeq(render_calls', Len(render_calls) + 1, Len(render_calls'))

NewLogged == SubSeq(LOGGER', Len(LOGGER) + 1, Len(LOGGER'))

\* A call of processEvent constructs the ShakeEvent a second time exactly
\* when the first construction failed with one of the errors, then with the
\* force flag true; it calls renderMap only after a construction that
\* succeeded; and after another error it logs it and calls no renderMap.
RetriesOnceOn(errors) ==
    LET new == NewShakeEvents IN
    new # << >> =>
        /\ Len(new) <= 2
        /\ Len(new) = 2 <=> new[1].outcome \in errors
        /\ Len(new) = 2 => new[2].theForceFlag
        /\ Len(NewRenderCalls) <= 1
        /\ NewRenderCalls # << >> => new[Len(new)].outcome = "ok"
        /\ new[1].outcome \notin errors \cup {"ok"} =>
               /\ NewRenderCalls = << >>
               /\ NewLogged = <<"An error occurred setting up the shake event.">>

\* The loop of --run-all goes on to the next file of the listing whatever
\* the call of processEvent did, and ends after the last file only.
RunAllGoesOn ==
    map_pc = "run-all" =>
        \/ map_pc' = "run-all" /\ event_index' = event_index + 1
        \/ map_pc' = "exit" /\ event_index > Len(myListing)

\* C16: processEvent retries the construction of the ShakeEvent once, with
\* the force flag true, when it failed with BadZipfile or with URLError;
\* renderMap is called only after a construction succeeded; another error
\* is logged and processEvent returns without renderMap; and in --run-all
\* mode a failure never keeps the remaining events from being processed.
C16_RetriesOnce ==
    [][RetriesOnceOn({"BadZipfile", "URLError"}) /\ RunAllGoesOn]_vars

\* C16, with the retry for BadZipfile only, URLError being another error.
C16_RetriesOnBadZipfile ==
    [][RetriesOnceOn({"BadZipfile"}) /\ RunAllGoesOn]_vars

=============================================================================
